---- MODULE Spec2Model ----
(***************************************************************************)
(* The chunked extraction pipeline of the knowledge-graph repository: the  *)
(* operator console loop (extraction_menu in main.py, main in              *)
(* src/extract.py), process_chunks, and the two persisted documents        *)
(* (data/progress_stats.json and data/extracted_graph.json).               *)
(*                                                                         *)
(* Chunk indices are 0-based as in the code; TLA+ sequences are 1-based.   *)
(* A relationship record is [head, relation]; head carries the index of    *)
(* the chunk whose response held the record, so records of different       *)
(* chunks are distinguishable.                                             *)
(***************************************************************************)
EXTENDS Integers, Sequences, FiniteSets, TLC

VARIABLES
    variant,                    \* "main" (main.py console) or "extract" (src/extract.py script)
    pc,                         \* "off", "menu", "batch", "aborted", "crashed", "crashed_on_load", "interrupted"
    total_chunks,               \* len(book_chunks) of the running session
    stats,                      \* the in-memory stats dict
    graph_data,                 \* graph_data["graph"] (main.py) / all_triplets (extract.py)
    processed_chunks_set,
    failed_chunks_set,
    cmd,                        \* the operator's last input
    chunks_to_process_indices,
    pos,                        \* number of chunks the loop of process_chunks has handled
    new_triplets,               \* newly_extracted_relationships / newly_extracted_triplets
    successful_indices,
    failed_indices,
    response,                   \* what the model did for the chunk handled last
    requests,                   \* indices sent to model.generate_content in this operator action
    statsDoc,                   \* data/progress_stats.json
    graphDoc,                   \* data/extracted_graph.json
    saved,                      \* how the two save_data calls of this session's last run ended
    write_failures,             \* number of runs so far with a failed save_data call
    chunker,                    \* read_book_chunks: its arguments, its locals and its position
    loader,                     \* populate_graph: the records read, its batch, what it submitted
    wrapper,                    \* call_generative_model / get_ai_standardization_for_batch
    sessions                    \* two consoles working on the same two documents

vars == <<variant, pc, total_chunks, stats, graph_data, processed_chunks_set,
          failed_chunks_set, cmd, chunks_to_process_indices, pos, new_triplets,
          successful_indices, failed_indices, response, requests, statsDoc, graphDoc,
          saved, write_failures, chunker, loader, wrapper, sessions>>
tools == <<loader, wrapper, sessions>>

mem == <<stats, graph_data, processed_chunks_set, failed_chunks_set>>
batch == <<pos, new_triplets, successful_indices, failed_indices, response>>
disk == <<statsDoc, graphDoc>>

\* The largest number of chunks a book splits into.
MaxChunks == 2

\* Runs whose save may fail in one behaviour.
MaxWriteFailures == 1

\* Runs of each of the two consoles that share the documents.
MaxRunsPerSession == 2

\* Records in the graph document given to populate_graph.
MaxRecords == 2

\* Longest text and largest chunk size given to read_book_chunks.
MaxTextLen == 6
MaxChunkSize == 4

Variants == {"main", "extract"}

\* Members of the Schema Registry's relationship-type enumeration.
RELATIONSHIP_TYPES == {"BORN_IN", "SUPPORTED"}

\* A relation token the registry does not hold.
UnregisteredRelation == "INVENTED"

(***************************************************************************)
(* Sequences, sets and Python list operations.                             *)
(***************************************************************************)
Range(s) == {s[i] : i \in DOMAIN s}

IsPrefix(s, t) == Len(s) <= Len(t) /\ SubSeq(t, 1, Len(s)) = s

IsAscending(s) == \A i \in 1..(Len(s) - 1) : s[i] < s[i + 1]

SetMin(S) == CHOOSE m \in S : \A x \in S : m <= x

RECURSIVE sorted_descending(_)
\* sorted(...) with the order reversed
sorted_descending(S) ==
    IF S = {} THEN <<>>
    ELSE LET m == SetMin(S) IN sorted_descending(S \ {m}) \o <<m>>

RECURSIVE sorted(_)
\* sorted(list(a_set))
sorted(S) ==
    IF S = {} THEN <<>>
    ELSE LET m == SetMin(S) IN <<m>> \o sorted(S \ {m})

\* the comprehension without its `if i not in processed` filter
NotProcessedIn_unfiltered(lo, hi, processed) ==
    IF lo >= hi THEN <<>> ELSE [k \in 1..(hi - lo) |-> lo + k - 1]

RECURSIVE NotProcessedIn(_, _, _)
\* [i for i in range(lo, hi) if i not in processed]
NotProcessedIn(lo, hi, processed) ==
    IF lo >= hi THEN <<>>
    ELSE (IF lo \notin processed THEN <<lo>> ELSE <<>>)
         \o NotProcessedIn(lo + 1, hi, processed)

\* a_list.extend(other)
extend(a_list, other) == a_list \o other

(***************************************************************************)
(* The persisted documents and load_data / save_data.                      *)
(***************************************************************************)
\* stats = {} read through stats.get(key, default). total_extracted is
\* "total_relationships_extracted" in main.py and "total_triplets_extracted"
\* in extract.py. The timestamp and the token totals, which no branch reads,
\* are left out.
EmptyStats ==
    [total_chunks_in_book |-> 0, processed_chunks |-> <<>>,
     failed_chunks |-> <<>>, total_extracted |-> 0]

\* A document is a record with its kind and what it holds.
\* progress document: "missing", "corrupt" (not JSON, or unreadable with an
\* IOError), "array" (JSON, but a list instead of an object), "object".
\* graph document: "missing", "corrupt", "bare" (the legacy form: the record
\* list itself), "wrapped" ({"graph": [...]}).
MissingStatsDoc == [kind |-> "missing", value |-> EmptyStats]
MissingGraphDoc == [kind |-> "missing", graph |-> <<>>]
CorruptStatsDoc == [kind |-> "corrupt", value |-> EmptyStats]
CorruptGraphDoc == [kind |-> "corrupt", graph |-> <<>>]
ArrayStatsDoc == [kind |-> "array", value |-> EmptyStats]

\* load_data(STATS_PATH, default_value={})
load_stats(doc) ==
    IF doc.kind \in {"missing", "corrupt"} THEN EmptyStats ELSE doc.value

\* stats["total_chunks_in_book"] = total_chunks raises TypeError on a list
StatsAssignRaises(doc) == doc.kind = "array"

\* main.py: load_data(GRAPH_OUTPUT_PATH, {"graph": []}) and the shape test after it
load_graph_main(doc) ==
    IF doc.kind = "wrapped" THEN doc.graph ELSE <<>>

\* extract.py: load_data(GRAPH_OUTPUT_PATH, []) unwraps "graph", else returns the data
load_graph_extract(doc) ==
    IF doc.kind \in {"missing", "corrupt"} THEN <<>> ELSE doc.graph

load_graph(v, doc) ==
    IF v = "main" THEN load_graph_main(doc) ELSE load_graph_extract(doc)

\* save_data(stats, STATS_PATH)
save_stats(s) == [kind |-> "object", value |-> s]

\* save_data of the graph: both variants write {"graph": [...]}
save_graph_bare(g) == [kind |-> "bare", graph |-> g]
save_graph(g) == [kind |-> "wrapped", graph |-> g]

\* How a save_data call ends: "ok"; "unchanged": open(file_path, 'w') raised
\* IOError and the file is as it was; "truncated": open truncated the file
\* and json.dump raised IOError before the document was complete. save_data
\* prints the error and returns in both failing cases.
WriteOutcomes == {"ok", "unchanged", "truncated"}
BothSaved == [graph |-> "ok", stats |-> "ok"]

written_stats(new, old, outcome) ==
    IF outcome = "ok" THEN new
    ELSE IF outcome = "unchanged" THEN old
    ELSE CorruptStatsDoc

written_graph(new, old, outcome) ==
    IF outcome = "ok" THEN new
    ELSE IF outcome = "unchanged" THEN old
    ELSE CorruptGraphDoc

\* stats, the graph and the two sets as read from the documents
LoadedStats(n) == [load_stats(statsDoc) EXCEPT !.total_chunks_in_book = n]

(***************************************************************************)
(* The model's answer for one chunk and process_chunks' handling of it.    *)
(***************************************************************************)
Record(i, r) == [head |-> i, relation |-> r]

\* The lists a response can hold under its "graph" key.
GraphLists(i) ==
    { <<>>,
      <<Record(i, "SUPPORTED")>>,
      <<Record(i, "BORN_IN"), Record(i, UnregisteredRelation)>> }

\* What the model does for one chunk. kind:
\*   count_tokens_error  model.count_tokens raises (main.py only)
\*   api_error           model.generate_content or response.text raises
\* and, when a text comes back, what the text holds:
\*   not_json            no JSON
\*   number              JSON, not an object and not a container
\*   array               JSON list (not holding the string "graph")
\*   no_graph_key        JSON object without the "graph" key
\*   graph_not_list      JSON object whose "graph" value is not a list
\*   graph_list          JSON object whose only key is "graph", its value the list in `graph`
\*   graph_list_extra    JSON object with "graph", its value the list in `graph`, and another key
\* fenced: the text is wrapped in a Markdown fence, ```json ... ```.
ErrorKinds == {"count_tokens_error", "api_error"}
TextKinds == {"not_json", "number", "array", "no_graph_key", "graph_not_list"}
ListKinds == {"graph_list", "graph_list_extra"}

Outcomes(i) ==
    {[kind |-> k, fenced |-> FALSE, graph |-> <<>>] : k \in ErrorKinds}
        \cup {[kind |-> k, fenced |-> f, graph |-> <<>>] :
                  k \in TextKinds, f \in BOOLEAN}
        \cup {[kind |-> k, fenced |-> f, graph |-> g] :
                  k \in ListKinds, g \in GraphLists(i), f \in BOOLEAN}

NoResponse == [kind |-> "none", fenced |-> FALSE, graph |-> <<>>]

\* response.text.strip().replace("```json", "").replace("```", "")
strip_fences(text) == [text EXCEPT !.fenced = FALSE]

\* json.loads(text) raises JSONDecodeError
NotJson(text) == text.fenced \/ text.kind = "not_json"

\* The exception raised inside the try block ("none": the block runs to its end).
Raises(v, o) ==
    IF o.kind \in ErrorKinds THEN "Exception"
    ELSE IF NotJson(strip_fences(o)) THEN "JSONDecodeError"
    ELSE IF o.kind = "number" /\ v = "main" THEN "TypeError"
    ELSE "none"

\* Whether model.generate_content was called before the block ended.
Requested(o) == o.kind # "count_tokens_error"

\* "graph" in data
HasGraphKey(o) == o.kind \in {"graph_not_list"} \cup ListKinds

\* isinstance(data, dict)
IsDict(o) == o.kind \in {"no_graph_key", "graph_not_list"} \cup ListKinds

\* isinstance(data["graph"], list)
GraphIsList(o) == o.kind \in ListKinds

\* the test without isinstance(data["graph"], list)
shape_ok_key_only(v, o) ==
    /\ v = "extract" => IsDict(o)
    /\ HasGraphKey(o)

\* The test that accepts a parsed response.
shape_ok(v, o) ==
    /\ v = "extract" => IsDict(o)
    /\ HasGraphKey(o)
    /\ GraphIsList(o)

\* only `except json.JSONDecodeError`
Caught_decode_only(exc) == exc = "JSONDecodeError"

\* The except clauses: json.JSONDecodeError and Exception.
Caught(exc) == exc \in {"JSONDecodeError", "TypeError", "Exception"}

\* processed_chunks_set = set(successful_indices)
update_processed_assign(processed, succeeded) == Range(succeeded)

\* processed_chunks_set.update(successful_indices)
update_processed(processed, succeeded) == processed \cup Range(succeeded)

\* without failed_chunks_set.difference_update(successful_indices)
update_failed_no_difference(failed, succeeded, newly_failed) ==
    failed \cup Range(newly_failed)

\* failed_chunks_set.difference_update(successful_indices); .update(newly_failed_indices)
update_failed(failed, succeeded, newly_failed) ==
    (failed \ Range(succeeded)) \cup Range(newly_failed)

\* graph = new_triplets instead of graph.extend(new_triplets)
append_new_replace(graph, new) == IF new # <<>> THEN new ELSE graph

\* if new_triplets: graph.extend(new_triplets)
append_new(graph, new) == IF new # <<>> THEN extend(graph, new) ELSE graph

(***************************************************************************)
(* Operator input.                                                         *)
(***************************************************************************)
NoCmd == [op |-> "none", start |-> 0, end |-> 0]
Cmd(op) == [op |-> op, start |-> 0, end |-> 0]
RangeCmd(a, b) == [op |-> "range", start |-> a, end |-> b]

\* without the upper limit: 0 <= start_chunk < end_chunk
valid_range_no_upper_limit(a, b, n) == 0 <= a /\ a < b + 1

\* 0 <= start_chunk < end_chunk <= total_chunks, with end_chunk = int(end_str) + 1
valid_range(a, b, n) == 0 <= a /\ a < b + 1 /\ b + 1 <= n

(***************************************************************************)
(* Initial state: no session, no documents.                                *)
(***************************************************************************)
IdleChunker ==
    [pc |-> "idle", exists |-> FALSE, text |-> <<>>, chunk_size |-> 0,
     overlap |-> 0, start |-> 0, chunks |-> <<>>]

IdleLoader ==
    [pc |-> "idle", input |-> <<>>, done |-> <<>>, batch |-> <<>>,
     submitted |-> <<>>, skipped_count |-> 0]

NoText == [kind |-> "none", body |-> "", fenced |-> FALSE]

IdleWrapper ==
    [pc |-> "idle", fn |-> "none", i |-> 0,
     current_prompt |-> [kind |-> "none", error |-> "", faulty |-> NoText],
     log |-> <<>>, result |-> [kind |-> "none", body |-> ""]]

NoSessions == <<>>

\* The console before any session; the documents are set by the caller.
ConsoleOff ==
    /\ variant \in Variants
    /\ pc = "off"
    /\ total_chunks = 0
    /\ stats = EmptyStats
    /\ graph_data = <<>>
    /\ processed_chunks_set = {}
    /\ failed_chunks_set = {}
    /\ cmd = NoCmd
    /\ chunks_to_process_indices = <<>>
    /\ pos = 0
    /\ new_triplets = <<>>
    /\ successful_indices = <<>>
    /\ failed_indices = <<>>
    /\ response = NoResponse
    /\ requests = <<>>
    /\ saved = BothSaved
    /\ write_failures = 0

Init ==
    /\ ConsoleOff
    /\ statsDoc = MissingStatsDoc
    /\ graphDoc = MissingGraphDoc
    /\ chunker = IdleChunker
    /\ loader = IdleLoader
    /\ wrapper = IdleWrapper
    /\ sessions = NoSessions

\* A fresh process: no batch has run and nothing was typed.
FreshLocals ==
    /\ cmd' = NoCmd
    /\ chunks_to_process_indices' = <<>>
    /\ pos' = 0
    /\ new_triplets' = <<>>
    /\ successful_indices' = <<>>
    /\ failed_indices' = <<>>
    /\ response' = NoResponse
    /\ requests' = <<>>
    /\ saved' = BothSaved

\* The book is read and split into n chunks. extract.py loads both documents
\* once here and exits on an empty book; main.py loads them at every action.
StartSession(n) ==
    /\ pc \in {"off", "crashed", "aborted", "crashed_on_load", "interrupted"}
    /\ total_chunks' = n
    /\ IF variant = "main"
       THEN /\ pc' = "menu"
            /\ stats' = EmptyStats
            /\ graph_data' = <<>>
            /\ processed_chunks_set' = {}
            /\ failed_chunks_set' = {}
       ELSE IF n = 0
       THEN /\ pc' = "off"
            /\ stats' = EmptyStats
            /\ graph_data' = <<>>
            /\ processed_chunks_set' = {}
            /\ failed_chunks_set' = {}
       ELSE IF StatsAssignRaises(statsDoc)
       THEN /\ pc' = "crashed_on_load"
            /\ stats' = EmptyStats
            /\ graph_data' = <<>>
            /\ processed_chunks_set' = {}
            /\ failed_chunks_set' = {}
       ELSE /\ pc' = "menu"
            /\ stats' = LoadedStats(n)
            /\ graph_data' = load_graph_extract(graphDoc)
            /\ processed_chunks_set' = Range(stats'.processed_chunks)
            /\ failed_chunks_set' = Range(stats'.failed_chunks)
    /\ FreshLocals
    /\ UNCHANGED <<variant, disk, chunker, tools, write_failures>>

\* main.py lines 205-211, run for every non-empty choice.
Reload ==
    IF variant = "main"
    THEN /\ stats' = LoadedStats(total_chunks)
         /\ graph_data' = load_graph_main(graphDoc)
         /\ processed_chunks_set' = Range(stats'.processed_chunks)
         /\ failed_chunks_set' = Range(stats'.failed_chunks)
    ELSE UNCHANGED mem

\* The TypeError of line 206 escapes extraction_menu.
CrashOnLoad(c) ==
    /\ pc' = "crashed_on_load"
    /\ cmd' = c
    /\ UNCHANGED <<variant, total_chunks, mem, chunks_to_process_indices, batch,
                   requests, disk, saved, chunker, tools, write_failures>>

\* An operator action: main.py first reads the documents, then both
\* variants handle the input.
OperatorAction(c, handle) ==
    IF variant = "main" /\ StatsAssignRaises(statsDoc)
    THEN CrashOnLoad(c)
    ELSE Reload /\ handle

\* The action ends in `continue` before any index list is built.
Continue(c) ==
    /\ cmd' = c
    /\ pc' = "menu"
    /\ requests' = <<>>
    /\ chunks_to_process_indices' = <<>>
    /\ UNCHANGED <<variant, total_chunks, batch, disk, saved, chunker, tools, write_failures>>

\* The action built `indices`: nothing to do, or book_chunks[i] raises
\* IndexError outside any try, or the batch starts.
Select(c, indices) ==
    /\ cmd' = c
    /\ requests' = <<>>
    /\ chunks_to_process_indices' = indices
    /\ IF indices = <<>>
       THEN pc' = "menu" /\ UNCHANGED batch
       ELSE IF \E i \in Range(indices) : i >= total_chunks
       THEN pc' = "crashed" /\ UNCHANGED batch
       ELSE /\ pc' = "batch"
            /\ pos' = 0
            /\ new_triplets' = <<>>
            /\ successful_indices' = <<>>
            /\ failed_indices' = <<>>
            /\ response' = NoResponse
    /\ UNCHANGED <<variant, total_chunks, disk, saved, chunker, tools, write_failures>>

\* choice '1' / an input holding '-'
RangeAction(a, b) ==
    /\ pc = "menu"
    /\ OperatorAction(RangeCmd(a, b),
           IF valid_range(a, b, total_chunks)
           THEN Select(RangeCmd(a, b), NotProcessedIn(a, b + 1, processed_chunks_set'))
           ELSE Continue(RangeCmd(a, b)))

\* a range input that split('-') / int() rejects with ValueError
RangeMalformed ==
    /\ pc = "menu"
    /\ OperatorAction(Cmd("range_malformed"), Continue(Cmd("range_malformed")))

\* choice '2' / 'all'
AllAction ==
    /\ pc = "menu"
    /\ OperatorAction(Cmd("all"),
           Select(Cmd("all"), NotProcessedIn(0, total_chunks, processed_chunks_set')))

\* choice '3' / 'retry'
RetryAction ==
    /\ pc = "menu"
    /\ OperatorAction(Cmd("retry"),
           IF failed_chunks_set' = {}
           THEN Continue(Cmd("retry"))
           ELSE Select(Cmd("retry"), sorted(failed_chunks_set')))

\* choice '4' / 'status': display_status(stats). extract.py tests for it
\* before it clears the index list.
StatusAction ==
    /\ pc = "menu"
    /\ OperatorAction(Cmd("status"),
           /\ cmd' = Cmd("status")
           /\ pc' = "menu"
           /\ requests' = <<>>
           /\ chunks_to_process_indices' =
                  IF variant = "main" THEN <<>> ELSE chunks_to_process_indices
           /\ UNCHANGED <<variant, total_chunks, batch, disk, saved, chunker, tools, write_failures>>)

\* any other input
InvalidChoice ==
    /\ pc = "menu"
    /\ OperatorAction(Cmd("invalid"), Continue(Cmd("invalid")))

\* empty input / 'quit': the loop ends and its locals are gone
Quit ==
    /\ pc = "menu"
    /\ pc' = "off"
    /\ stats' = EmptyStats
    /\ graph_data' = <<>>
    /\ processed_chunks_set' = {}
    /\ failed_chunks_set' = {}
    /\ FreshLocals
    /\ UNCHANGED <<variant, total_chunks, disk, chunker, tools, write_failures>>

\* One iteration of the loop of process_chunks, for the model outcome o.
ProcessChunk(o) ==
    /\ pc = "batch"
    /\ pos < Len(chunks_to_process_indices)
    /\ o.kind = "count_tokens_error" => variant = "main"
    /\ LET index == chunks_to_process_indices[pos + 1]
           exc == Raises(variant, o)
       IN  /\ o \in Outcomes(index)
           /\ response' = o
           /\ requests' = IF Requested(o) THEN Append(requests, index) ELSE requests
           /\ IF exc = "none" /\ shape_ok(variant, o)
              THEN /\ new_triplets' = extend(new_triplets, o.graph)
                   /\ successful_indices' = Append(successful_indices, index)
                   /\ pos' = pos + 1
                   /\ UNCHANGED <<pc, failed_indices>>
              ELSE IF exc = "none" \/ Caught(exc)
              THEN /\ failed_indices' = Append(failed_indices, index)
                   /\ pos' = pos + 1
                   /\ UNCHANGED <<pc, new_triplets, successful_indices>>
              ELSE /\ pc' = "aborted"
                   /\ UNCHANGED <<pos, new_triplets, successful_indices, failed_indices>>
    /\ UNCHANGED <<variant, total_chunks, mem, cmd, chunks_to_process_indices, disk,
                   saved, chunker, tools, write_failures>>

\* Ctrl-C while process_chunks runs: KeyboardInterrupt is not an Exception,
\* no except clause catches it and the process ends with its memory.
Interrupt ==
    /\ pc = "batch"
    /\ pc' = "interrupted"
    /\ stats' = EmptyStats
    /\ graph_data' = <<>>
    /\ processed_chunks_set' = {}
    /\ failed_chunks_set' = {}
    /\ FreshLocals
    /\ UNCHANGED <<variant, total_chunks, disk, chunker, tools, write_failures>>

\* the loop of process_chunks left after any iteration
for_loop_exhausted_early(indices, p) == TRUE

\* the loop `for index, chunk_text in chunks_to_process` has no item left
for_loop_exhausted(indices, p) == p = Len(indices)

\* process_chunks has returned: reconcile the sets, extend the graph, rebuild
\* stats and save both documents. The batch's results are not read again
\* after the save, so the model drops them here.
FinishRunWith(graph_write, stats_write) ==
    /\ pc = "batch"
    /\ for_loop_exhausted(chunks_to_process_indices, pos)
    /\ processed_chunks_set' = update_processed(processed_chunks_set, successful_indices)
    /\ failed_chunks_set' = update_failed(failed_chunks_set, successful_indices, failed_indices)
    /\ graph_data' = append_new(graph_data, new_triplets)
    /\ stats' = [stats EXCEPT !.processed_chunks = sorted(processed_chunks_set'),
                              !.failed_chunks = sorted(failed_chunks_set'),
                              !.total_extracted = Len(graph_data')]
    /\ graphDoc' = written_graph(save_graph(graph_data'), graphDoc, graph_write)
    /\ statsDoc' = written_stats(save_stats(stats'), statsDoc, stats_write)
    /\ saved' = [graph |-> graph_write, stats |-> stats_write]
    /\ pc' = "menu"
    /\ pos' = 0
    /\ new_triplets' = <<>>
    /\ successful_indices' = <<>>
    /\ failed_indices' = <<>>
    /\ response' = NoResponse
    /\ write_failures' = write_failures + (IF saved' = BothSaved THEN 0 ELSE 1)
    /\ UNCHANGED <<variant, total_chunks, cmd, chunks_to_process_indices, requests,
                   chunker, tools>>

\* The run ends and both documents are written.
FinishRun == FinishRunWith("ok", "ok")

\* The run ends and at least one of the two writes fails.
FinishRunFaulty ==
    \E g, w \in WriteOutcomes :
        /\ <<g, w>> # <<"ok", "ok">>
        /\ write_failures < MaxWriteFailures
        /\ FinishRunWith(g, w)

Next ==
    \/ \E n \in 0..MaxChunks : StartSession(n)
    \/ \E a, b \in 0..MaxChunks : RangeAction(a, b)
    \/ RangeMalformed
    \/ AllAction
    \/ RetryAction
    \/ StatusAction
    \/ InvalidChoice
    \/ Quit
    \/ \E i \in 0..(MaxChunks - 1) : \E o \in Outcomes(i) : ProcessChunk(o)
    \/ FinishRun
    \/ Interrupt

Spec == Init /\ [][Next]_vars

\* One session in which the operator goes on issuing 'all', with retries in
\* between, and the model goes on answering; for every chunk it returns a
\* well-formed response again and again when asked for that chunk.
WellFormedResponseFor(i) ==
    /\ pc = "batch"
    /\ pos < Len(chunks_to_process_indices)
    /\ chunks_to_process_indices[pos + 1] = i
    /\ \E o \in Outcomes(i) : o.kind = "graph_list" /\ ProcessChunk(o)

SomeResponse == \E i \in 0..(MaxChunks - 1) : \E o \in Outcomes(i) : ProcessChunk(o)

OpenSession == \E n \in 0..MaxChunks : pc = "off" /\ StartSession(n)

NextLive ==
    \/ OpenSession
    \/ AllAction
    \/ RetryAction
    \/ SomeResponse
    \/ FinishRun

SpecLive ==
    /\ Init
    /\ [][NextLive]_vars
    /\ WF_vars(OpenSession)
    /\ SF_vars(AllAction)
    /\ WF_vars(SomeResponse)
    /\ WF_vars(FinishRun)
    /\ \A i \in 0..(MaxChunks - 1) : SF_vars(WellFormedResponseFor(i))

\* The same console where a save_data call can fail.
NextIO == Next \/ FinishRunFaulty

SpecIO == Init /\ [][NextIO]_vars

\* The same console started on documents left by an earlier deployment or
\* damaged outside the program.
LegacyGraph == <<Record(0, "BORN_IN"), Record(0, "SUPPORTED")>>

LegacyStats ==
    [total_chunks_in_book |-> 1, processed_chunks |-> <<0>>,
     failed_chunks |-> <<>>, total_extracted |-> 2]

InitDocs ==
    /\ ConsoleOff
    /\ statsDoc \in {MissingStatsDoc, CorruptStatsDoc, ArrayStatsDoc,
                      save_stats(LegacyStats)}
    /\ graphDoc \in {MissingGraphDoc, CorruptGraphDoc,
                      [kind |-> "bare", graph |-> LegacyGraph],
                      save_graph(LegacyGraph)}
    /\ chunker = IdleChunker
    /\ loader = IdleLoader
    /\ wrapper = IdleWrapper
    /\ sessions = NoSessions

SpecDocs == InitDocs /\ [][Next]_vars

(***************************************************************************)
(* read_book_chunks. A text is the sequence of its character positions, so *)
(* that two slices are equal only if they are the same stretch of text.    *)
(***************************************************************************)
CHUNK_SIZE == 10000
CHUNK_OVERLAP == 500

Min(a, b) == IF a <= b THEN a ELSE b
Max(a, b) == IF a >= b THEN a ELSE b

Text(len) == [k \in 1..len |-> k]

\* text[start:end] for 0 <= start <= end
slice_short(text, start, end) == SubSeq(text, start + 1, Min(end - 1, Len(text)))
slice(text, start, end) == SubSeq(text, start + 1, Min(end, Len(text)))

\* start += chunk_size - overlap
next_start_no_overlap(start, chunk_size, overlap) == start + chunk_size
next_start(start, chunk_size, overlap) == start + (chunk_size - overlap)

\* while start < len(text)
more_chunks_inclusive(c) == c.start <= Len(c.text)
more_chunks(c) == c.start < Len(c.text)

\* One iteration of the loop: end = start + chunk_size;
\* chunks.append(text[start:end]); start += chunk_size - overlap
chunk_step(c) ==
    [c EXCEPT !.chunks = Append(@, slice(c.text, c.start, c.start + c.chunk_size)),
              !.start = next_start(@, c.chunk_size, c.overlap)]

RECURSIVE chunk_loop(_)
chunk_loop(c) == IF more_chunks(c) THEN chunk_loop(chunk_step(c)) ELSE c.chunks

\* A call of read_book_chunks about to open the file.
ChunkerCall(exists, text, chunk_size, overlap) ==
    [pc |-> "open", exists |-> exists, text |-> text, chunk_size |-> chunk_size,
     overlap |-> overlap, start |-> 0, chunks |-> <<>>]

\* The whole function.
read_book_chunks(exists, text, chunk_size, overlap) ==
    IF exists
    THEN chunk_loop([ChunkerCall(exists, text, chunk_size, overlap) EXCEPT !.pc = "loop"])
    ELSE <<>>

pipeline == <<variant, pc, total_chunks, mem, cmd, chunks_to_process_indices, batch,
              requests, disk, saved, write_failures>>

\* Calls with every text length, chunk size and overlap within the bounds,
\* and calls on a file that does not exist.
InitChunker ==
    /\ ConsoleOff
    /\ statsDoc = MissingStatsDoc
    /\ graphDoc = MissingGraphDoc
    /\ loader = IdleLoader
    /\ wrapper = IdleWrapper
    /\ sessions = NoSessions
    /\ \E len \in 0..MaxTextLen, chunk_size \in 1..MaxChunkSize, exists \in BOOLEAN :
          \E overlap \in 0..(chunk_size - 1) :
              /\ ~exists => len = 0
              /\ chunker = ChunkerCall(exists, Text(len), chunk_size, overlap)

\* open and read the file; FileNotFoundError returns []
OpenBook ==
    /\ chunker.pc = "open"
    /\ chunker' = [chunker EXCEPT !.pc = IF chunker.exists THEN "loop" ELSE "done"]
    /\ UNCHANGED <<pipeline, tools>>

ChunkIteration ==
    /\ chunker.pc = "loop"
    /\ more_chunks(chunker)
    /\ chunker' = chunk_step(chunker)
    /\ UNCHANGED <<pipeline, tools>>

ChunkReturn ==
    /\ chunker.pc = "loop"
    /\ ~more_chunks(chunker)
    /\ chunker' = [chunker EXCEPT !.pc = "done"]
    /\ UNCHANGED <<pipeline, tools>>

NextChunker == OpenBook \/ ChunkIteration \/ ChunkReturn

SpecChunker == InitChunker /\ [][NextChunker]_vars

(***************************************************************************)
(* populate.py. A JSON value is a record of its type, its JSON text and,   *)
(* for an object, its members.                                             *)
(***************************************************************************)
batch_size == 500

NoItems == [k \in {} |-> 0]

Scalar(type, text) == [type |-> type, text |-> text, items |-> NoItems]

\* Values of a property: two scalars, an object and a list.
PropertyValues ==
    { Scalar("string", "secret"),
      Scalar("number", "1357"),
      Scalar("dict", "{\"year\": 1357}"),
      Scalar("list", "[\"a\", \"b\"]") }

Dict(items) == [type |-> "dict", text |-> "", items |-> items]

\* What the "properties" field of a record of the graph document can hold:
\* an object with none, one or two members, or a value that is no object
\* (process_chunks does not look into the records it accepts).
PropertyShapes ==
    {Dict(NoItems)}
        \cup {Dict([k \in {"visibility"} |-> v]) : v \in PropertyValues}
        \cup {Dict([k \in {"visibility", "type"} |->
                        IF k = "type" THEN Scalar("string", "financial") ELSE v]) :
                  v \in PropertyValues}
        \cup { Scalar("list", "[{\"type\": \"financial\"}]"),
               Scalar("string", "none"),
               Scalar("null", "null") }

\* A record of the graph document: whether it has all required keys, whether
\* its five name fields are non-blank strings, and its properties.
Relationships ==
    [has_required_keys : BOOLEAN, names_are_strings : BOOLEAN,
     properties : PropertyShapes]

\* json.dumps(value, ensure_ascii=False): a string holding the value's JSON text
json_dumps(value) == Scalar("string", value.text)

flatten_properties(props) ==
    IF props.type # "dict" THEN props
    ELSE [props EXCEPT !.items =
              [k \in DOMAIN props.items |->
                   IF props.items[k].type \in {"dict", "list"}
                   THEN json_dumps(props.items[k])
                   ELSE props.items[k]]]

\* The two tests that skip a record.
Skipped(rel) == ~rel.has_required_keys \/ ~rel.names_are_strings

record_data(rel) == [rel_props |-> flatten_properties(rel.properties)]

RECURSIVE Documents(_)
Documents(n) ==
    IF n = 0 THEN {<<>>}
    ELSE Documents(n - 1)
             \cup {Append(d, rel) : d \in {e \in Documents(n - 1) : Len(e) = n - 1},
                                    rel \in Relationships}

\* populate_graph about to stream a graph document of up to MaxRecords records.
InitLoader ==
    /\ ConsoleOff
    /\ statsDoc = MissingStatsDoc
    /\ graphDoc = MissingGraphDoc
    /\ chunker = IdleChunker
    /\ wrapper = IdleWrapper
    /\ sessions = NoSessions
    /\ \E d \in Documents(MaxRecords) :
          loader = [IdleLoader EXCEPT !.pc = "loop", !.input = d]

\* One iteration of `for rel in relationships`: skip the record, or build
\* record_data, append it to the batch and send the batch when it is full.
LoadRecord ==
    /\ loader.pc = "loop"
    /\ loader.input # <<>>
    /\ LET rel == Head(loader.input)
           filled == Append(loader.batch, record_data(rel))
       IN  loader' =
               IF Skipped(rel)
               THEN [loader EXCEPT !.input = Tail(@), !.done = Append(@, rel),
                                   !.skipped_count = @ + 1]
               ELSE IF Len(filled) >= batch_size
               THEN [loader EXCEPT !.input = Tail(@), !.done = Append(@, rel),
                                   !.submitted = @ \o filled, !.batch = <<>>]
               ELSE [loader EXCEPT !.input = Tail(@), !.done = Append(@, rel),
                                   !.batch = filled]
    /\ UNCHANGED <<pipeline, chunker, wrapper, sessions>>

\* The stream has ended: `if batch:` sends what is left.
FinishLoad ==
    /\ loader.pc = "loop"
    /\ loader.input = <<>>
    /\ loader' = [loader EXCEPT !.pc = "done", !.submitted = @ \o loader.batch,
                                !.batch = <<>>]
    /\ UNCHANGED <<pipeline, chunker, wrapper, sessions>>

NextLoader == LoadRecord \/ FinishLoad

SpecLoader == InitLoader /\ [][NextLoader]_vars

(***************************************************************************)
(* The structured-output retry wrapper of group_and_refine_schema.py and   *)
(* refine_schema_from_json.py.                                             *)
(***************************************************************************)
max_retries == 3

WrapperFunctions == {"call_generative_model", "get_ai_standardization_for_batch"}

\* Response bodies: one that is JSON and two that are not.
JsonBodies == {"{\"a\": \"FOUNDED\"}"}
BrokenBodies == {"{\"a\": ", "{'a': 1}"}

\* What one model.generate_content call does: it raises (so does
\* response.text of a blocked response), or a text comes back, with or
\* without a Markdown fence around it.
WrapperOutcomes ==
    {[kind |-> "api_error", body |-> "", fenced |-> FALSE]}
        \cup [kind : {"text"}, body : JsonBodies \cup BrokenBodies, fenced : BOOLEAN]

\* response.text.strip().replace("```json", "").replace("```", "")
cleaned_response(o) == [o EXCEPT !.fenced = FALSE]

\* json.loads(text) returns
IsJson(text) == ~text.fenced /\ text.body \in JsonBodies

\* json.loads(text) as a value
json_loads(text) == [kind |-> "json", body |-> text.body]

\* str(e) of the JSONDecodeError json.loads(text) raises
decode_error(text) ==
    IF text.body = "{\"a\": " THEN "Expecting value"
    ELSE "Expecting property name enclosed in double quotes"

\* The exception of one pass through the try block ("none": it returned).
WrapperRaises(o) ==
    IF o.kind = "api_error" THEN "Exception"
    ELSE IF IsJson(cleaned_response(o)) THEN "none"
    ELSE "JSONDecodeError"

InitialPrompt == [kind |-> "initial", error |-> "", faulty |-> NoText]

\* the prompt left as it is after a decode error
next_prompt_unchanged(prompt, exc, o) == prompt

\* current_prompt after the except clauses: the self-correction prompt with
\* ERROR: {e} and FAULTY TEXT: {response.text} after a JSONDecodeError
next_prompt(prompt, exc, o) ==
    IF exc = "JSONDecodeError"
    THEN [kind |-> "corrective", error |-> decode_error(cleaned_response(o)),
          faulty |-> o]
    ELSE prompt

\* return None / return {}
failure_value(fn) ==
    IF fn = "call_generative_model" THEN [kind |-> "None", body |-> ""]
    ELSE [kind |-> "empty_map", body |-> ""]

InitWrapper ==
    /\ ConsoleOff
    /\ statsDoc = MissingStatsDoc
    /\ graphDoc = MissingGraphDoc
    /\ chunker = IdleChunker
    /\ loader = IdleLoader
    /\ sessions = NoSessions
    /\ \E fn \in WrapperFunctions :
          wrapper = [IdleWrapper EXCEPT !.pc = "loop", !.fn = fn,
                                        !.current_prompt = InitialPrompt]

\* One iteration of `for i in range(max_retries)` with the model outcome o.
Attempt(o) ==
    /\ wrapper.pc = "loop"
    /\ wrapper.i < max_retries
    /\ LET exc == WrapperRaises(o)
           sent == Append(wrapper.log, [prompt |-> wrapper.current_prompt, outcome |-> o])
       IN  wrapper' =
               IF exc = "none"
               THEN [wrapper EXCEPT !.pc = "returned", !.log = sent,
                                    !.result = json_loads(cleaned_response(o))]
               ELSE [wrapper EXCEPT !.i = @ + 1, !.log = sent,
                                    !.current_prompt = next_prompt(@, exc, o)]
    /\ UNCHANGED <<pipeline, chunker, loader, sessions>>

\* The loop has run max_retries times without a return.
GiveUp ==
    /\ wrapper.pc = "loop"
    /\ wrapper.i = max_retries
    /\ wrapper' = [wrapper EXCEPT !.pc = "returned", !.result = failure_value(wrapper.fn)]
    /\ UNCHANGED <<pipeline, chunker, loader, sessions>>

NextWrapper == (\E o \in WrapperOutcomes : Attempt(o)) \/ GiveUp

SpecWrapper == InitWrapper /\ [][NextWrapper]_vars

(***************************************************************************)
(* Two consoles on the same two documents. Each console is the program     *)
(* above; the two save_data calls that end a run are two steps, since the  *)
(* other console can run between them.                                     *)
(***************************************************************************)
FreshSession ==
    [pc |-> "menu", runs |-> 0, stats |-> EmptyStats, graph_data |-> <<>>,
     processed_chunks_set |-> {}, failed_chunks_set |-> {},
     chunks_to_process_indices |-> <<>>, pos |-> 0, new_triplets |-> <<>>,
     successful_indices |-> <<>>, failed_indices |-> <<>>]

\* What a console works from when an action starts: main.py reads both
\* documents (lines 205-211), extract.py goes on with what it holds.
AtActionStart(m) ==
    IF variant = "main"
    THEN [m EXCEPT !.stats = LoadedStats(total_chunks),
                   !.graph_data = load_graph_main(graphDoc),
                   !.processed_chunks_set = Range(LoadedStats(total_chunks).processed_chunks),
                   !.failed_chunks_set = Range(LoadedStats(total_chunks).failed_chunks)]
    ELSE m

\* The model outcomes of the two-console runs: a transport error or one
\* accepted record.
TwoOutcomes(i) ==
    {o \in Outcomes(i) :
        \/ o.kind = "api_error"
        \/ o.kind = "graph_list" /\ ~o.fenced /\ Len(o.graph) = 1}

\* Both consoles have read the same book and wait at their prompt.
InitTwo ==
    /\ ConsoleOff
    /\ statsDoc = MissingStatsDoc
    /\ graphDoc = MissingGraphDoc
    /\ chunker = IdleChunker
    /\ loader = IdleLoader
    /\ wrapper = IdleWrapper
    /\ sessions = <<FreshSession, FreshSession>>

others == <<variant, pc, mem, cmd, chunks_to_process_indices, batch, requests,
            saved, write_failures, chunker, loader, wrapper>>

\* Console s gets 'all' or a range and builds its index list from the
\* chunks of range(first, stop) that are not processed.
TwoSelect(s, first, stop) ==
    /\ sessions[s].pc = "menu"
    /\ sessions[s].runs < MaxRunsPerSession
    /\ LET m == AtActionStart(sessions[s])
           indices == NotProcessedIn(first, stop, m.processed_chunks_set)
       IN  sessions' = [sessions EXCEPT ![s] =
               [m EXCEPT !.chunks_to_process_indices = indices,
                         !.pc = IF indices = <<>> THEN "menu" ELSE "batch",
                         !.pos = 0, !.new_triplets = <<>>,
                         !.successful_indices = <<>>, !.failed_indices = <<>>]]
    /\ UNCHANGED <<others, total_chunks, disk>>

TwoAll(s) == TwoSelect(s, 0, total_chunks)

TwoRange(s, a, b) ==
    valid_range(a, b, total_chunks) /\ TwoSelect(s, a, b + 1)

\* One iteration of process_chunks in console s.
TwoProcessChunk(s, o) ==
    /\ sessions[s].pc = "batch"
    /\ sessions[s].pos < Len(sessions[s].chunks_to_process_indices)
    /\ LET m == sessions[s]
           index == m.chunks_to_process_indices[m.pos + 1]
       IN  /\ o \in TwoOutcomes(index)
           /\ sessions' = [sessions EXCEPT ![s] =
                  IF Raises(variant, o) = "none" /\ shape_ok(variant, o)
                  THEN [m EXCEPT !.pos = @ + 1,
                                 !.new_triplets = extend(@, o.graph),
                                 !.successful_indices = Append(@, index)]
                  ELSE [m EXCEPT !.pos = @ + 1,
                                 !.failed_indices = Append(@, index)]]
    /\ UNCHANGED <<others, total_chunks, disk>>

\* process_chunks has returned in console s: the sets are reconciled, stats
\* rebuilt and save_data(graph_data, GRAPH_OUTPUT_PATH) runs.
TwoSaveGraph(s) ==
    /\ sessions[s].pc = "batch"
    /\ sessions[s].pos = Len(sessions[s].chunks_to_process_indices)
    /\ LET m == sessions[s]
           processed == update_processed(m.processed_chunks_set, m.successful_indices)
           failed == update_failed(m.failed_chunks_set, m.successful_indices,
                                   m.failed_indices)
           graph == append_new(m.graph_data, m.new_triplets)
       IN  /\ sessions' = [sessions EXCEPT ![s] =
                  [m EXCEPT !.pc = "graph_saved",
                            !.processed_chunks_set = processed,
                            !.failed_chunks_set = failed,
                            !.graph_data = graph,
                            !.stats = [@ EXCEPT !.total_chunks_in_book = total_chunks,
                                                !.processed_chunks = sorted(processed),
                                                !.failed_chunks = sorted(failed),
                                                !.total_extracted = Len(graph)]]]
           /\ graphDoc' = save_graph(graph)
    /\ UNCHANGED <<others, total_chunks, statsDoc>>

\* save_data(stats, STATS_PATH) in console s; the run is over.
TwoSaveStats(s) ==
    /\ sessions[s].pc = "graph_saved"
    /\ statsDoc' = save_stats(sessions[s].stats)
    /\ sessions' = [sessions EXCEPT ![s].pc = "menu", ![s].runs = @ + 1]
    /\ UNCHANGED <<others, total_chunks, graphDoc>>

\* The book is read: its number of chunks is the same for both consoles.
TwoReadBook(n) ==
    /\ total_chunks = 0
    /\ \A s \in DOMAIN sessions : sessions[s] = FreshSession
    /\ total_chunks' = n
    /\ UNCHANGED <<others, sessions, disk>>

NextTwo ==
    \/ \E n \in 1..MaxChunks : TwoReadBook(n)
    \/ \E s \in 1..2 : TwoAll(s)
    \/ \E s \in 1..2 : \E a, b \in 0..MaxChunks : TwoRange(s, a, b)
    \/ \E s \in 1..2 : \E i \in 0..(MaxChunks - 1) : \E o \in TwoOutcomes(i) :
          TwoProcessChunk(s, o)
    \/ \E s \in 1..2 : TwoSaveGraph(s)
    \/ \E s \in 1..2 : TwoSaveStats(s)

SpecTwo == InitTwo /\ [][NextTwo]_vars

(***************************************************************************)
(* What the claims read.                                                   *)
(***************************************************************************)
\* The sets and the sequence the two documents hold.
DocProcessed == Range(statsDoc.value.processed_chunks)
DocFailed == Range(statsDoc.value.failed_chunks)
PersistedGraph == graphDoc.graph

\* What an operator action starting now would work from: main.py reads the
\* documents, extract.py its memory.
ConsultedProcessed ==
    IF variant = "main" THEN Range(load_stats(statsDoc).processed_chunks)
    ELSE processed_chunks_set
ConsultedGraph ==
    IF variant = "main" THEN load_graph_main(graphDoc) ELSE graph_data
ConsultedTotalExtracted ==
    IF variant = "main" THEN load_stats(statsDoc).total_extracted
    ELSE stats.total_extracted

\* A step in which a batch ends and its results are reconciled and saved.
RunEnds == pc = "batch" /\ pc' = "menu"

\* A state right after a run that had at least one chunk.
AfterRun == pc = "menu" /\ chunks_to_process_indices # <<>>

NoDuplicates(s) == \A i, j \in DOMAIN s : i # j => s[i] # s[j]

(***************************************************************************)
(* C1..C10                                                                 *)
(***************************************************************************)

\* C1: no chunk index is in both processed_chunks and failed_chunks, in the
\* in-memory sets, in the in-memory stats and in the persisted progress
\* document, after any sequence of range / all / retry runs.
C1_ProcessedFailedDisjoint ==
    /\ processed_chunks_set \cap failed_chunks_set = {}
    /\ Range(stats.processed_chunks) \cap Range(stats.failed_chunks) = {}
    /\ DocProcessed \cap DocFailed = {}

\* A retry run has ended and the document holds processed and failed chunks.
C1_Witness ==
    /\ AfterRun
    /\ cmd.op = "retry"
    /\ DocProcessed # {}
    /\ DocFailed # {}

\* C2: when a run ends, every chunk that was in failed_chunks before it and
\* that the run processed successfully is in processed_chunks and not in
\* failed_chunks, in memory and in the persisted document.
C2_SucceededLeavesFailed ==
    [][RunEnds =>
          \A k \in failed_chunks_set \cap Range(successful_indices) :
              /\ k \in processed_chunks_set'
              /\ k \notin failed_chunks_set'
              /\ k \in DocProcessed'
              /\ k \notin DocFailed']_vars

\* A retry run has ended and one of the chunks it retried is now processed.
C2_Witness ==
    /\ AfterRun
    /\ cmd.op = "retry"
    /\ \E k \in Range(chunks_to_process_indices) :
          k \in processed_chunks_set /\ k \in DocProcessed /\ k \notin DocFailed

\* C3: no per-chunk outcome aborts the batch, and the indices handled so far
\* each appear exactly once in exactly one of successful_indices and
\* failed_indices (all pending indices once the loop has ended).
C3_BatchNeverAborts ==
    /\ pc # "aborted"
    /\ pc = "batch" =>
          LET both == successful_indices \o failed_indices
          IN  /\ pos <= Len(chunks_to_process_indices)
              /\ Len(both) = pos
              /\ NoDuplicates(both)
              /\ NoDuplicates(chunks_to_process_indices)
              /\ Range(both) = Range(SubSeq(chunks_to_process_indices, 1, pos))
              /\ Range(successful_indices) \cap Range(failed_indices) = {}

\* The loop has ended for a batch that saw a transport error last and has
\* both succeeded and failed chunks.
C3_Witness ==
    /\ pc = "batch"
    /\ pos = Len(chunks_to_process_indices)
    /\ pos >= 2
    /\ successful_indices # <<>>
    /\ failed_indices # <<>>
    /\ response.kind = "api_error"

\* The texts that, fence removed, are not JSON, or are JSON without a "graph"
\* key, or JSON whose "graph" value is not a list.
MalformedKinds == TextKinds

\* C4: a malformed response (not JSON, no "graph" key, "graph" not a list)
\* puts the chunk's index in failed_indices and adds nothing to
\* new_triplets; new_triplets never holds a record of a failed chunk.
C4_MalformedFails ==
    [][(pc = "batch" /\ pos' = pos + 1 /\ response'.kind \in MalformedKinds) =>
          /\ pc' = "batch"
          /\ failed_indices' =
                 Append(failed_indices, chunks_to_process_indices[pos + 1])
          /\ successful_indices' = successful_indices
          /\ new_triplets' = new_triplets
          /\ \A i \in DOMAIN new_triplets' :
                 new_triplets'[i].head \notin Range(failed_indices')]_vars

\* A chunk whose "graph" value was not a list is in failed_indices while
\* another chunk of the batch contributed records.
C4_Witness ==
    /\ pc = "batch"
    /\ pos >= 2
    /\ response.kind = "graph_not_list"
    /\ response.fenced
    /\ chunks_to_process_indices[pos] \in Range(failed_indices)
    /\ new_triplets # <<>>

\* C5: no record whose relation is outside the registry's relationship-type
\* set is in new_triplets or in the persisted graph sequence.
C5_OnlyRegisteredRelations ==
    /\ \A i \in DOMAIN new_triplets :
          new_triplets[i].relation \in RELATIONSHIP_TYPES
    /\ \A i \in DOMAIN PersistedGraph :
          PersistedGraph[i].relation \in RELATIONSHIP_TYPES

\* The indices a range or 'all' input in cmd asks for.
Asked(c, n) == IF c.op = "all" THEN 0..(n - 1) ELSE c.start..c.end

\* An operator step handling an accepted range or 'all' input.
SelectsRangeOrAll ==
    /\ pc = "menu"
    /\ pc' # "off"
    /\ cmd'.op \in {"range", "all"}
    /\ cmd'.op = "range" => valid_range(cmd'.start, cmd'.end, total_chunks)

\* C6: a range (or 'all') whose every index is already processed makes no
\* model request, leaves both documents as they are, and leaves
\* processed_chunks, the graph sequence and the extracted total unchanged.
C6_ProcessedRangeIsNoOp ==
    [][(SelectsRangeOrAll /\ Asked(cmd', total_chunks) \subseteq ConsultedProcessed) =>
          /\ pc' = "menu"
          /\ requests' = <<>>
          /\ chunks_to_process_indices' = <<>>
          /\ statsDoc' = statsDoc
          /\ graphDoc' = graphDoc
          /\ processed_chunks_set' = ConsultedProcessed
          /\ graph_data' = ConsultedGraph
          /\ stats'.total_extracted = ConsultedTotalExtracted]_vars

\* A range of two processed chunks was issued again: nothing was selected
\* and no request was made, with records in the persisted graph.
C6_Witness ==
    /\ pc = "menu"
    /\ cmd.op = "range"
    /\ cmd.start < cmd.end
    /\ valid_range(cmd.start, cmd.end, total_chunks)
    /\ cmd.start..cmd.end \subseteq processed_chunks_set
    /\ chunks_to_process_indices = <<>>
    /\ requests = <<>>
    /\ PersistedGraph # <<>>

\* C7: the index list of a range is the ascending list of the indices in
\* [start, end] not in processed_chunks, that of 'all' the ascending list of
\* the indices in [0, total_chunks) not in processed_chunks, that of 'retry'
\* the ascending list of failed_chunks; range and 'all' lists are disjoint
\* from processed_chunks.
C7_SelectionPolicies ==
    /\ ( /\ cmd.op \in {"range", "all"}
         /\ cmd.op = "range" => valid_range(cmd.start, cmd.end, total_chunks)
         /\ pc = "batch" \/ (pc = "menu" /\ chunks_to_process_indices = <<>>) )
       => /\ IsAscending(chunks_to_process_indices)
          /\ Range(chunks_to_process_indices) =
                 Asked(cmd, total_chunks) \ processed_chunks_set
          /\ Range(chunks_to_process_indices) \cap processed_chunks_set = {}
    /\ (cmd.op = "retry" /\ pc \in {"batch", "crashed"})
       => /\ IsAscending(chunks_to_process_indices)
          /\ Range(chunks_to_process_indices) = failed_chunks_set

\* A batch selected by an accepted range that skipped a processed index.
C7_Witness ==
    /\ pc = "batch"
    /\ cmd.op = "range"
    /\ Len(chunks_to_process_indices) < cmd.end - cmd.start + 1
    /\ chunks_to_process_indices # <<>>

\* C8: when a run ends, processed = prior processed \cup succeeded and
\* failed = (prior failed \ succeeded) \cup newly failed, in memory and in
\* the persisted document, the prior sets being those of the document.
C8_Reconcile ==
    [][RunEnds =>
          LET succeeded == Range(successful_indices)
              newly_failed == Range(failed_indices)
          IN  /\ processed_chunks_set' = processed_chunks_set \cup succeeded
              /\ failed_chunks_set' = (failed_chunks_set \ succeeded) \cup newly_failed
              /\ DocProcessed' = DocProcessed \cup succeeded
              /\ DocFailed' = (DocFailed \ succeeded) \cup newly_failed
              /\ statsDoc'.value.processed_chunks = sorted(processed_chunks_set')
              /\ statsDoc'.value.failed_chunks = sorted(failed_chunks_set')]_vars

\* An 'all' run has ended leaving processed and failed chunks in the document.
C8_Witness ==
    /\ AfterRun
    /\ cmd.op = "all"
    /\ DocProcessed # {}
    /\ DocFailed # {}

\* C9: every index of the persisted processed_chunks lies in
\* [0, total_chunks_in_book), also when the book of a later session has
\* fewer chunks.
C9_ProcessedWithinBook ==
    DocProcessed \subseteq 0..(statsDoc.value.total_chunks_in_book - 1)

C11_LegacyRecordsKept ==
    [][/\ (pc = "menu" /\ pc' = "batch" /\ graphDoc.kind = "bare")
             => graph_data' = graphDoc.graph
       /\ (RunEnds /\ graphDoc.kind = "bare")
             => /\ graphDoc'.kind = "wrapped"
                /\ IsPrefix(graphDoc.graph, graphDoc'.graph)]_vars

\* C12: no load of the progress or graph document crashes the session,
\* whatever the document holds.
C12_LoadNeverCrashes == pc # "crashed_on_load"

\* C13: with an empty book every operator action, whatever the persisted
\* progress, makes no model request, lets no exception escape and leaves
\* both documents as they are.
C13_EmptyBookNothingToDo ==
    [][(pc = "menu" /\ total_chunks = 0) =>
          /\ pc' \in {"menu", "off"}
          /\ requests' = <<>>
          /\ statsDoc' = statsDoc
          /\ graphDoc' = graphDoc]_vars

\* The chunks that have a record in the persisted graph.
ChunksInGraph == {PersistedGraph[i].head : i \in DOMAIN PersistedGraph}

\* C14: after a run whose two writes succeeded, also one that follows a run
\* with a failed write, the persisted total equals the length of the
\* persisted graph and every chunk with records in the graph is in the
\* persisted processed_chunks.
C14_MismatchRepaired ==
    (AfterRun /\ saved = BothSaved) =>
        /\ statsDoc.kind = "object"
        /\ statsDoc.value.total_extracted = Len(PersistedGraph)
        /\ ChunksInGraph \subseteq DocProcessed

\* C15: after a run with a failed write, the next operator action of the
\* session works from an in-memory state that still holds the run's results:
\* its processed chunks and its graph sequence.
C15_ResultsKeptAfterFailedSave ==
    [][(pc = "menu" /\ saved # BothSaved /\ pc' \in {"menu", "batch", "crashed"}) =>
          /\ processed_chunks_set \subseteq processed_chunks_set'
          /\ IsPrefix(graph_data, graph_data')]_vars

\* text[i*(chunk_size-overlap) : i*(chunk_size-overlap)+chunk_size], written
\* out character by character.
FormulaChunk(c, i) ==
    LET from == i * (c.chunk_size - c.overlap)
        to == Min(from + c.chunk_size, Len(c.text))
    IN  [k \in 1..(to - from) |-> c.text[from + k]]

\* A call that read the file and returned.
Returned == chunker.pc = "done" /\ chunker.exists

\* C16: read_book_chunks returns, in increasing i, chunk i =
\* T[i*(chunk_size-overlap) : i*(chunk_size-overlap)+chunk_size] for exactly
\* the i >= 0 whose start offset is below len(T); a text of 25000 characters
\* with chunk_size 10000 and overlap 500 gives 3 chunks starting at 0, 9500
\* and 19000.
C16_ChunkerFormula ==
    Returned =>
        LET c == chunker
            step == c.chunk_size - c.overlap
            n == Len(c.chunks)
        IN  /\ \A i \in 0..(n - 1) :
                  /\ i * step < Len(c.text)
                  /\ c.chunks[i + 1] = FormulaChunk(c, i)
            /\ \A i \in 0..Len(c.text) : i * step < Len(c.text) => i < n
            /\ c.chunks = read_book_chunks(TRUE, c.text, c.chunk_size, c.overlap)
            /\ LET r == read_book_chunks(TRUE, Text(25000), CHUNK_SIZE, CHUNK_OVERLAP)
               IN  /\ Len(r) = 3
                   /\ r[1] = SubSeq(Text(25000), 1, 10000)
                   /\ r[2] = SubSeq(Text(25000), 9501, 19500)
                   /\ r[3] = SubSeq(Text(25000), 19001, 25000)

\* A call with an overlap returned three or more chunks, the last one short.
C16_Witness ==
    /\ Returned
    /\ chunker.overlap > 0
    /\ Len(chunker.chunks) >= 3
    /\ Len(chunker.chunks[Len(chunker.chunks)]) < chunker.chunk_size

CeilDiv(a, b) == (a + b - 1) \div b

\* C17 as stated: the number of chunks is
\* ceil(max(0, len(T) - overlap) / (chunk_size - overlap)).
C17_CountAsStated ==
    Returned =>
        Len(chunker.chunks) =
            CeilDiv(Max(0, Len(chunker.text) - chunker.overlap),
                    chunker.chunk_size - chunker.overlap)

\* C17: the number of chunks is ceil(len(T) / (chunk_size - overlap)): one
\* chunk for every start offset i*(chunk_size-overlap) below len(T).
C17_ChunkCount ==
    Returned =>
        Len(chunker.chunks) =
            CeilDiv(Len(chunker.text), chunker.chunk_size - chunker.overlap)

\* A call returned more chunks than the stated formula gives.
C17_Witness ==
    /\ Returned
    /\ chunker.overlap > 0
    /\ Len(chunker.chunks) >= 2
    /\ Len(chunker.chunks) >
           CeilDiv(Max(0, Len(chunker.text) - chunker.overlap),
                   chunker.chunk_size - chunker.overlap)

\* The last n characters of s and the first n characters of s.
LastChars(s, n) == SubSeq(s, Max(1, Len(s) - n + 1), Len(s))
FirstChars(s, n) == SubSeq(s, 1, Min(n, Len(s)))

\* Every position of the text is in some chunk.
Covered(c) ==
    \A p \in 1..Len(c.text) :
        \E i \in DOMAIN c.chunks : \E k \in DOMAIN c.chunks[i] : c.chunks[i][k] = p

\* C18 as stated: the text is covered; the last `overlap` characters of a
\* chunk are the first `overlap` characters of the next; only the last chunk
\* may be shorter than chunk_size.
C18_OverlapAsStated ==
    Returned =>
        LET c == chunker
            n == Len(c.chunks)
        IN  /\ Covered(c)
            /\ \A i \in 1..(n - 1) :
                  /\ LastChars(c.chunks[i], c.overlap) = FirstChars(c.chunks[i + 1], c.overlap)
                  /\ Len(c.chunks[i]) = c.chunk_size

\* C18: the text is covered; what a chunk holds from offset
\* chunk_size - overlap on is the beginning of the next chunk, and it is the
\* chunk's last `overlap` characters when the chunk has chunk_size
\* characters; a chunk shorter than chunk_size ends where the text ends.
C18_CoverageAndOverlap ==
    Returned =>
        LET c == chunker
            n == Len(c.chunks)
            step == c.chunk_size - c.overlap
        IN  /\ Covered(c)
            /\ \A i \in 1..(n - 1) :
                  LET tail == SubSeq(c.chunks[i], step + 1, Len(c.chunks[i]))
                  IN  /\ tail = FirstChars(c.chunks[i + 1], Len(tail))
                      /\ Len(c.chunks[i]) = c.chunk_size
                            => /\ tail = LastChars(c.chunks[i], c.overlap)
                               /\ Len(tail) = c.overlap
            /\ \A i \in 1..n :
                  /\ c.chunks[i] # <<>>
                  /\ Len(c.chunks[i]) <= c.chunk_size
                  /\ Len(c.chunks[i]) < c.chunk_size
                        => c.chunks[i][Len(c.chunks[i])] = Len(c.text)

\* A call returned three or more chunks of which one before the last is
\* shorter than chunk_size.
C18_Witness ==
    /\ Returned
    /\ Len(chunker.chunks) >= 3
    /\ \E i \in 1..(Len(chunker.chunks) - 1) :
          Len(chunker.chunks[i]) < chunker.chunk_size

\* C19: the graph document written for a record sequence is the wrapped
\* form, and loading it, by either console, gives the same records in the
\* same order; after a run the persisted document is the one written for
\* the in-memory graph sequence.
C19_GraphRoundTrip ==
    /\ \A v \in Variants : load_graph(v, save_graph(graph_data)) = graph_data
    /\ save_graph(graph_data).kind = "wrapped"
    /\ AfterRun => /\ graphDoc = save_graph(graph_data)
                   /\ load_graph(variant, graphDoc) = graph_data

\* A run has ended and the saved graph holds two or more records, of which
\* two differ.
C19_Witness ==
    /\ AfterRun
    /\ Len(graph_data) >= 2
    /\ graph_data[1] # graph_data[Len(graph_data)]
    /\ PersistedGraph = graph_data

\* C20: a chunk is accepted only if its stripped response is a JSON object
\* whose single key holds a list of records; an object with any other key
\* beside it, or a value that is not an object, marks the chunk failed.
C20_SingleKeyOnly ==
    (pc = "batch" /\ pos >= 1) =>
        /\ chunks_to_process_indices[pos] \in Range(successful_indices)
              => response.kind = "graph_list"
        /\ response.kind \in {"graph_list_extra", "number", "array"}
              => chunks_to_process_indices[pos] \in Range(failed_indices)

(***************************************************************************)
(* C21..C30                                                                *)
(***************************************************************************)

\* A step of the loop of process_chunks that handles one chunk.
ChunkHandled == pc = "batch" /\ pos' = pos + 1

\* C21: a failure of the token-count call alone neither prevents the model
\* request for the chunk nor marks the chunk failed.
C21_TokenCountIsNeutral ==
    [][(ChunkHandled /\ response'.kind = "count_tokens_error") =>
          /\ requests' = Append(requests, chunks_to_process_indices[pos + 1])
          /\ failed_indices' = failed_indices]_vars

\* C22: within one batch the model requests are in strictly ascending index
\* order, for range, 'all' and retry, and successful_indices and
\* failed_indices are each ascending.
C22_AscendingOrder ==
    pc = "batch" =>
        /\ IsAscending(chunks_to_process_indices)
        /\ IsAscending(requests)
        /\ IsAscending(successful_indices)
        /\ IsAscending(failed_indices)

\* A retry batch of two chunks has been handled, one chunk succeeded after
\* the other failed.
C22_Witness ==
    /\ pc = "batch"
    /\ cmd.op = "retry"
    /\ pos = 2
    /\ Len(requests) = 2
    /\ requests[1] < requests[2]
    /\ Len(successful_indices) = 1
    /\ Len(failed_indices) = 1

\* C23: in a batch exactly one model request is made for every chunk handled
\* so far, in the order of the batch: no chunk is requested twice and none is
\* passed over without a request.
C23_OneRequestPerChunk ==
    pc = "batch" => requests = SubSeq(chunks_to_process_indices, 1, pos)

\* C24: a step taken while a batch is processed leaves both documents as
\* they are, unless the loop of process_chunks has finished and the step
\* ends the run; so does a step that starts a batch and one that interrupts
\* it.
C24_NoWriteDuringBatch ==
    [][/\ (pc = "batch" /\ <<statsDoc, graphDoc>>' # <<statsDoc, graphDoc>>)
             => /\ pos = Len(chunks_to_process_indices)
                /\ pc' = "menu"
       /\ pc' \in {"batch", "interrupted", "aborted"}
             => <<statsDoc, graphDoc>>' = <<statsDoc, graphDoc>>]_vars

\* In the middle of a batch of two chunks the first chunk's records are in
\* memory and not in the graph document.
C24_Witness ==
    /\ pc = "batch"
    /\ pos = 1
    /\ Len(chunks_to_process_indices) = 2
    /\ new_triplets # <<>>
    /\ \A i \in DOMAIN PersistedGraph :
          PersistedGraph[i].head # chunks_to_process_indices[1]
    /\ chunks_to_process_indices[1] \notin DocProcessed

\* The records of chunk i in the sequence s, in order.
RECURSIVE RecordsOf(_, _)
RecordsOf(s, i) ==
    IF s = <<>> THEN <<>>
    ELSE IF s[1].head = i THEN <<s[1]>> \o RecordsOf(Tail(s), i)
    ELSE RecordsOf(Tail(s), i)

\* C28: the persisted graph holds, for every chunk, the records of at most
\* one accepted response of that chunk; and no chunk of the persisted
\* processed_chunks is in a batch. Write failures included.
C28_AtMostOnce ==
    /\ \A i \in 0..(MaxChunks - 1) :
          RecordsOf(PersistedGraph, i) \in GraphLists(i)
    /\ pc = "batch" => Range(chunks_to_process_indices) \cap DocProcessed = {}

\* The inputs in cmd' that the console is to answer without a run.
NoOpInput ==
    \/ cmd'.op \in {"status", "invalid", "range_malformed"}
    \/ cmd'.op = "range" /\ ~(0 <= cmd'.start /\ cmd'.start <= cmd'.end
                               /\ cmd'.end < total_chunks)
    \/ cmd'.op = "retry" /\ failed_chunks_set' = {}
    \/ cmd'.op \in {"range", "all", "retry"} /\ chunks_to_process_indices' = <<>>

\* C30: 'status', an unrecognised command, a malformed or out-of-bounds
\* range, 'retry' with an empty failed set and a selection without indices
\* make no model request, write neither document and return to the prompt.
C30_NoOpActions ==
    [][(pc = "menu" /\ pc' # "off" /\ NoOpInput) =>
          /\ pc' = "menu"
          /\ requests' = <<>>
          /\ chunks_to_process_indices' = <<>> \/ cmd'.op = "status"
          /\ statsDoc' = statsDoc
          /\ graphDoc' = graphDoc]_vars

\* An out-of-bounds range was answered at the prompt while the documents
\* hold the results of an earlier run.
C30_Witness ==
    /\ pc = "menu"
    /\ cmd.op = "range"
    /\ cmd.end >= total_chunks
    /\ total_chunks > 0
    /\ requests = <<>>
    /\ chunks_to_process_indices = <<>>
    /\ PersistedGraph # <<>>
    /\ statsDoc.kind = "object"

\* C29: in a session where 'all' is issued again and again and every chunk
\* gets a well-formed response again and again, from some point on
\* processed_chunks holds every index of [0, total_chunks) and failed_chunks
\* is empty, in memory and in the progress document.
C29_AllCompletes ==
    <>[](/\ pc # "off"
         /\ processed_chunks_set = 0..(total_chunks - 1)
         /\ failed_chunks_set = {}
         /\ total_chunks > 0 => /\ DocProcessed = 0..(total_chunks - 1)
                                /\ DocFailed = {})

\* An 'all' run that selected only the second chunk, which had failed in an
\* earlier run, has ended with both chunks processed and none failed.
C29_Witness ==
    /\ AfterRun
    /\ cmd.op = "all"
    /\ total_chunks = 2
    /\ chunks_to_process_indices = <<1>>
    /\ DocProcessed = {0, 1}
    /\ DocFailed = {}

\* The records of the document read so far that were not skipped.
NotSkipped(rel) == ~Skipped(rel)

\* C26: every record submitted to the graph store has a properties value
\* that is a mapping without dictionary or list values: it has the members
\* of the record's "properties" field, a dictionary or list member replaced
\* by the string of its JSON text and any other member unchanged, whatever
\* the "properties" field holds.
C26_FlatProperties ==
    LET read == SelectSeq(loader.done, NotSkipped)
    IN  \A n \in DOMAIN loader.submitted :
            LET sent == loader.submitted[n].rel_props
                given == read[n].properties
            IN  /\ sent.type = "dict"
                /\ DOMAIN sent.items = DOMAIN given.items
                /\ \A k \in DOMAIN sent.items :
                      /\ sent.items[k].type \notin {"dict", "list"}
                      /\ given.items[k].type \in {"dict", "list"}
                            => sent.items[k] = Scalar("string", given.items[k].text)
                      /\ given.items[k].type \notin {"dict", "list"}
                            => sent.items[k] = given.items[k]

\* A logged invocation whose response, fence removed, is JSON.
Parses(entry) ==
    /\ entry.outcome.kind = "text"
    /\ entry.outcome.body \in JsonBodies

\* C27: the wrapper makes at most 3 model invocations; every invocation but
\* the last failed; the first prompt is the initial one and the prompt after
\* a response that does not parse is the corrective prompt with that parse
\* error and that response; it returns the parsed value of the first
\* response that parses, and after 3 failed invocations the failure value
\* (None / empty map).
C27_BoundedRetry ==
    LET log == wrapper.log
        n == Len(log)
    IN  /\ n <= 3
        /\ \A k \in 1..(n - 1) : ~Parses(log[k])
        /\ n >= 1 => log[1].prompt = InitialPrompt
        /\ \A k \in 1..(n - 1) :
              /\ (log[k].outcome.kind = "text")
                    => /\ log[k + 1].prompt.kind = "corrective"
                       /\ log[k + 1].prompt.faulty = log[k].outcome
                       /\ log[k + 1].prompt.error =
                              decode_error([log[k].outcome EXCEPT !.fenced = FALSE])
              /\ (log[k].outcome.kind = "api_error")
                    => log[k + 1].prompt = log[k].prompt
        /\ wrapper.pc = "loop" => (n < 3 \/ ~Parses(log[n]))
        /\ wrapper.pc = "returned" =>
              IF n >= 1 /\ Parses(log[n])
              THEN wrapper.result = [kind |-> "json", body |-> log[n].outcome.body]
              ELSE /\ n = 3
                   /\ wrapper.result =
                          (IF wrapper.fn = "call_generative_model"
                           THEN [kind |-> "None", body |-> ""]
                           ELSE [kind |-> "empty_map", body |-> ""])

\* The wrapper returned the parsed third response, sent with the corrective
\* prompt for the first response, after a transport error on the second.
C27_Witness ==
    /\ wrapper.pc = "returned"
    /\ Len(wrapper.log) = 3
    /\ wrapper.result.kind = "json"
    /\ wrapper.log[1].outcome.kind = "text"
    /\ wrapper.log[2].outcome.kind = "api_error"
    /\ wrapper.log[3].prompt.kind = "corrective"
    /\ wrapper.log[3].prompt.faulty = wrapper.log[1].outcome

\* Console s has ended a run and waits at its prompt.
RanAndIdle(s) == sessions[s].pc = "menu" /\ sessions[s].runs >= 1

\* C25: when two consoles have each ended a run on the same documents and
\* both wait at their prompt, the progress document and the graph document
\* are both what one of the two consoles wrote at the end of its last run.
C25_LastWriterWins ==
    (sessions # <<>> /\ \A s \in DOMAIN sessions : RanAndIdle(s)) =>
        \E s \in DOMAIN sessions :
            /\ graphDoc = save_graph(sessions[s].graph_data)
            /\ statsDoc = save_stats(sessions[s].stats)

====
